---- MODULE Spec2Model ----
(***************************************************************************)
(* Authorization-code grant (lib/grant-types/authorization-code-grant-     *)
(* type.ts): exchange of a one-time authorization code for a token.        *)
(*                                                                         *)
(* Two handle() invocations run against one storage collaborator that      *)
(* holds one code record.  Every `await` of handle() is a point where the  *)
(* other invocation, or the clock, may move.  Strings that the code takes  *)
(* apart (the code parameter, URIs, PKCE verifiers and challenges) are     *)
(* sequences of character codes; the empty sequence is the empty or        *)
(* missing string (both are falsy in the source).                          *)
(***************************************************************************)
EXTENDS Integers, Sequences, FiniteSets, TLC

\* ---------------------------------------------------------------- bounds
\* The clock runs over 0..MaxNow.
MaxNow == 2

\* Length in bytes of a SHA-256 digest.
DigestLen == 32

\* The two handle() invocations of the model.
Invocations == {"h1", "h2"}

\* ------------------------------------------------------------ characters
IsUpper(c) == c >= 65 /\ c <= 90
IsLower(c) == c >= 97 /\ c <= 122
IsDigit(c) == c >= 48 /\ c <= 57

\* validator/is vschar: one or more visible ASCII characters, no control
\* character and no space.
is_vschar(s) == Len(s) >= 1 /\ \A k \in 1..Len(s) : s[k] >= 33 /\ s[k] <= 126

\* validator/is uri: a scheme (a letter, then letters, digits, + . -)
\* followed by a colon.  A missing value is no URI.
IsSchemeChar(c) == IsUpper(c) \/ IsLower(c) \/ IsDigit(c) \/ c \in {43, 45, 46}

is_uri(s) ==
    \E k \in 3..Len(s) :
        /\ s[k] = 58
        /\ IsUpper(s[1]) \/ IsLower(s[1])
        /\ \A j \in 2..(k - 1) : IsSchemeChar(s[j])

\* ----------------------------------------------------------- PKCE proof
RECURSIVE SumSeq(_)
SumSeq(s) == IF s = <<>> THEN 0 ELSE Head(s) + SumSeq(Tail(s))

\* crypto.createHash('sha256').update(v).digest(): DigestLen bytes.  The
\* digest function is abstracted to one that is injective on the verifiers
\* of the model.
sha256(v) == [k \in 1..DigestLen |-> (SumSeq(v) * (k + 2) + 7 * k + Len(v)) % 256]

\* The character of a 6-bit value in the base64 alphabet (+ is 43, / is 47).
Base64Char(n) ==
    IF n < 26 THEN 65 + n
    ELSE IF n < 52 THEN 97 + (n - 26)
    ELSE IF n < 62 THEN 48 + (n - 52)
    ELSE IF n = 62 THEN 43 ELSE 47

\* Buffer.toString('base64'): three bytes give four characters; a last
\* group of one or two bytes is padded with = (61).
RECURSIVE Base64(_)
Base64(b) ==
    IF Len(b) = 0 THEN <<>>
    ELSE IF Len(b) = 1 THEN
        << Base64Char(b[1] \div 4), Base64Char((b[1] % 4) * 16), 61, 61 >>
    ELSE IF Len(b) = 2 THEN
        << Base64Char(b[1] \div 4),
           Base64Char((b[1] % 4) * 16 + (b[2] \div 16)),
           Base64Char((b[2] % 16) * 4), 61 >>
    ELSE
        << Base64Char(b[1] \div 4),
           Base64Char((b[1] % 4) * 16 + (b[2] \div 16)),
           Base64Char((b[2] % 16) * 4 + (b[3] \div 64)),
           Base64Char(b[3] % 64) >> \o Base64(SubSeq(b, 4, Len(b)))

\* utils/string-util base64URLEncode: base64 with + as -, / as _ and the
\* padding removed.
UrlSafe(c) == IF c = 43 THEN 45 ELSE IF c = 47 THEN 95 ELSE c

base64URLEncode(b) ==
    LET s == Base64(b)
        t == [k \in 1..Len(s) |-> UrlSafe(s[k])]
    IN  SelectSeq(t, LAMBDA c : c # 61)

\* ------------------------------------------------------------------ data
Err(kind, message) == [kind |-> kind, message |-> message]

\* No error: the check passed.
Ok == [kind |-> "ok", message |-> ""]

\* A request field the invocation has not read (yet).
Unread == << -1 >>

\* A null or missing object reference (client, user, codeChallengeMethod).
Null == "null"

\* Code parameters: missing, a control character, "A" (the stored code)
\* and "B" (a code the store does not know).
CodeA == << 65 >>
CodeB == << 66 >>
CodeParams == { <<>>, << 10 >>, CodeA, CodeB }

\* Clients presenting a code, by id; Null is a missing `client` argument.
Clients == { "A", "B" }

\* URIs: "ab:x", "ab:y" and "x" (no scheme, so no URI).
UriA == << 97, 98, 58, 120 >>
UriB == << 97, 98, 58, 121 >>
BadUri == << 120 >>
BodyRedirects == { <<>>, UriA, UriB, BadUri }
QueryRedirects == { <<>>, UriA }

\* code_verifier values: missing, "v1", "v2".
V1 == << 118, 49 >>
V2 == << 118, 50 >>
Verifiers == { <<>>, V1, V2 }

\* The S256 challenge a conforming authorization endpoint stores for "v1".
H1 == base64URLEncode(sha256(V1))

\* (codeChallenge, codeChallengeMethod) pairs a store may hold.
Pkce == { << <<>>, Null >>, << V1, "plain" >>, << H1, "S256" >>,
          << H1, "plain" >>, << V1, "md5" >>, << V1, Null >> }

NotADate == [isDate |-> FALSE, time |-> 0]
Date(t) == [isDate |-> TRUE, time |-> t]

\* What model.getAuthorizationCode returns for a code it does not hold.
Absent == [exists |-> FALSE]

\* The records the store may hold for CodeA.  The store is an external
\* collaborator, so every field may be malformed.
Records ==
    { [exists |-> TRUE, authorizationCode |-> CodeA, client |-> c, user |-> u,
       expiresAt |-> e, redirectUri |-> r, scope |-> "read write",
       codeChallenge |-> p[1], codeChallengeMethod |-> p[2]] :
        c \in {Null, "A"}, u \in {Null, "u"}, e \in {NotADate, Date(1)},
        r \in {<<>>, UriA, BadUri}, p \in Pkce }

\* What scope resolution may answer for a requested scope.
ResolvedScopes(scope) == { scope, "read" }

\* ----------------------------------------------------------------- state
VARIABLES
    now,          \* Date.now()
    store,        \* the record stored for CodeA
    present,      \* the store still returns the record
    consumed,     \* the store has revoked the record
    pc,           \* per invocation: the collaborator call it awaits
    request,      \* per invocation: the request fields read so far
    client,       \* per invocation: the id of the presented client
    code,         \* per invocation: what model.getAuthorizationCode returned
    lookupAt,     \* per invocation: the clock when the store answered the lookup
    status,       \* per invocation: what model.revokeAuthorizationCode returned
    issue,        \* per invocation: the token under construction
    result,       \* per invocation: the Token or the error handle() ends with
    calls,        \* per invocation: the collaborator calls made, in order
    before,       \* per invocation: the invocations that had ended when it began
    saved         \* what model.saveToken has persisted

vars == << now, store, present, consumed, pc, request, client, code, lookupAt,
           status, issue, result, calls, before, saved >>

NoRequest == [code |-> Unread, code_verifier |-> Unread,
              body_redirect_uri |-> Unread, query_redirect_uri |-> Unread]

NoIssue == [accessScope |-> "", accessToken |-> "", refreshToken |-> ""]

Pending == [kind |-> "pending", message |-> ""]

Init ==
    /\ now = 0
    /\ store \in Records
    /\ present = TRUE
    /\ consumed = FALSE
    /\ pc = [i \in Invocations |-> "idle"]
    /\ request = [i \in Invocations |-> NoRequest]
    /\ client = [i \in Invocations |-> Null]
    /\ code = [i \in Invocations |-> Absent]
    /\ lookupAt = [i \in Invocations |-> -1]
    /\ status = [i \in Invocations |-> "none"]
    /\ issue = [i \in Invocations |-> NoIssue]
    /\ result = [i \in Invocations |-> Pending]
    /\ calls = [i \in Invocations |-> <<>>]
    /\ before = [i \in Invocations |-> {}]
    /\ saved = {}

\* ------------------------------------------------- validation (pure part)
\* Error messages are the source's, with ' for its backquote.
InvalidCode == Err("InvalidGrantError", "Invalid grant: authorization code is invalid")

\* handle, lines 47-53: both arguments must be given.
validateArguments(hasRequest, cl) ==
    IF ~hasRequest THEN Err("InvalidArgumentError", "Missing parameter: 'request'")
    ELSE IF cl = Null THEN Err("InvalidArgumentError", "Missing parameter: 'client'")
    ELSE Ok

\* Mutant of validateCodeParameter: the format of the code is not checked.
validateCodeParameter_anyFormat(c) ==
    IF c = <<>> THEN Err("InvalidRequestError", "Missing parameter: 'code'")
    ELSE Ok

\* getAuthorizationCode, lines 71-77: the code parameter, before any lookup.
validateCodeParameter(c) ==
    IF c = <<>> THEN Err("InvalidRequestError", "Missing parameter: 'code'")
    ELSE IF ~is_vschar(c) THEN Err("InvalidRequestError", "Invalid parameter: 'code'")
    ELSE Ok

\* Mutant of isExpired: a code is refused at the instant it expires.
isExpired_inclusive(expiresAt, t) == expiresAt.time <= t

\* Mutant of isExpired: the comparison is the wrong way round.
isExpired_reversed(expiresAt, t) == expiresAt.time > t

\* getAuthorizationCode, line 110: code.expiresAt.getTime() < Date.now().
isExpired(expiresAt, t) == expiresAt.time < t

\* Mutant of validateCode: the client binding is checked after the expiry
\* and the stored redirect URI.
validateCode_clientLast(rec, cl, t) ==
    IF ~rec.exists THEN InvalidCode
    ELSE IF rec.client = Null THEN
        Err("ServerError", "Server error: 'getAuthorizationCode()' did not return a 'client' object")
    ELSE IF rec.user = Null THEN
        Err("ServerError", "Server error: 'getAuthorizationCode()' did not return a 'user' object")
    ELSE IF ~rec.expiresAt.isDate THEN
        Err("ServerError", "Server error: 'expiresAt' must be a Date instance")
    ELSE IF isExpired(rec.expiresAt, t) THEN
        Err("InvalidGrantError", "Invalid grant: authorization code has expired")
    ELSE IF rec.redirectUri # <<>> /\ ~is_uri(rec.redirectUri) THEN
        Err("InvalidGrantError", "Invalid grant: 'redirect_uri' is not a valid URI")
    ELSE IF rec.client # cl THEN InvalidCode
    ELSE Ok

\* getAuthorizationCode, lines 80-120: the fetched record against the
\* presented client and the clock.
validateCode(rec, cl, t) ==
    IF ~rec.exists THEN InvalidCode
    ELSE IF rec.client = Null THEN
        Err("ServerError", "Server error: 'getAuthorizationCode()' did not return a 'client' object")
    ELSE IF rec.user = Null THEN
        Err("ServerError", "Server error: 'getAuthorizationCode()' did not return a 'user' object")
    ELSE IF rec.client # cl THEN InvalidCode
    ELSE IF ~rec.expiresAt.isDate THEN
        Err("ServerError", "Server error: 'expiresAt' must be a Date instance")
    ELSE IF isExpired(rec.expiresAt, t) THEN
        Err("InvalidGrantError", "Invalid grant: authorization code has expired")
    ELSE IF rec.redirectUri # <<>> /\ ~is_uri(rec.redirectUri) THEN
        Err("InvalidGrantError", "Invalid grant: 'redirect_uri' is not a valid URI")
    ELSE Ok

\* Mutant of codeVerifierHash: the S256 digest is encoded as plain base64
\* (standard alphabet, padded).
codeVerifierHash_base64(method, verifier) ==
    IF method = "plain" THEN verifier
    ELSE IF method = "S256" THEN Base64(sha256(verifier))
    ELSE <<>>

\* getAuthorizationCode, lines 127-137: the proof derived from the verifier;
\* <<>> stands for the unrecognised-method arm of the switch.
codeVerifierHash(method, verifier) ==
    IF method = "plain" THEN verifier
    ELSE IF method = "S256" THEN base64URLEncode(sha256(verifier))
    ELSE <<>>

\* Mutant of verifyCodeChallenge: a missing verifier is reported as a
\* malformed request.
verifyCodeChallenge_missingAsRequest(rec, verifier) ==
    IF rec.codeChallenge # <<>> THEN
        IF verifier = <<>> THEN
            Err("InvalidRequestError", "Missing parameter: 'code_verifier'")
        ELSE IF rec.codeChallengeMethod \notin {"plain", "S256"} THEN
            Err("ServerError", "Server error: 'getAuthorizationCode()' did not return a valid 'codeChallengeMethod' property")
        ELSE IF rec.codeChallenge # codeVerifierHash(rec.codeChallengeMethod, verifier) THEN
            Err("InvalidGrantError", "Invalid grant: code verifier is invalid")
        ELSE Ok
    ELSE IF verifier # <<>> THEN
        Err("InvalidGrantError", "Invalid grant: code verifier is invalid")
    ELSE Ok

\* Mutant of verifyCodeChallenge: a verifier sent for a code without a
\* challenge is ignored.
verifyCodeChallenge_unchecked(rec, verifier) ==
    IF rec.codeChallenge # <<>> THEN
        IF verifier = <<>> THEN
            Err("InvalidGrantError", "Missing parameter: 'code_verifier'")
        ELSE IF rec.codeChallengeMethod \notin {"plain", "S256"} THEN
            Err("ServerError", "Server error: 'getAuthorizationCode()' did not return a valid 'codeChallengeMethod' property")
        ELSE IF rec.codeChallenge # codeVerifierHash(rec.codeChallengeMethod, verifier) THEN
            Err("InvalidGrantError", "Invalid grant: code verifier is invalid")
        ELSE Ok
    ELSE Ok

\* Mutant of verifyCodeChallenge: an unrecognised method is treated as a
\* proof that does not match.
verifyCodeChallenge_methodAsMismatch(rec, verifier) ==
    IF rec.codeChallenge # <<>> THEN
        IF verifier = <<>> THEN
            Err("InvalidGrantError", "Missing parameter: 'code_verifier'")
        ELSE IF rec.codeChallenge # codeVerifierHash(rec.codeChallengeMethod, verifier) THEN
            Err("InvalidGrantError", "Invalid grant: code verifier is invalid")
        ELSE Ok
    ELSE IF verifier # <<>> THEN
        Err("InvalidGrantError", "Invalid grant: code verifier is invalid")
    ELSE Ok

\* Mutant of verifyCodeChallenge: the method is dispatched on before the
\* verifier is looked for.
verifyCodeChallenge_dispatchFirst(rec, verifier) ==
    IF rec.codeChallenge # <<>> THEN
        IF rec.codeChallengeMethod \notin {"plain", "S256"} THEN
            Err("ServerError", "Server error: 'getAuthorizationCode()' did not return a valid 'codeChallengeMethod' property")
        ELSE IF verifier = <<>> THEN
            Err("InvalidGrantError", "Missing parameter: 'code_verifier'")
        ELSE IF rec.codeChallenge # codeVerifierHash(rec.codeChallengeMethod, verifier) THEN
            Err("InvalidGrantError", "Invalid grant: code verifier is invalid")
        ELSE Ok
    ELSE IF verifier # <<>> THEN
        Err("InvalidGrantError", "Invalid grant: code verifier is invalid")
    ELSE Ok

\* getAuthorizationCode, lines 122-147: PKCE.
verifyCodeChallenge(rec, verifier) ==
    IF rec.codeChallenge # <<>> THEN
        IF verifier = <<>> THEN
            Err("InvalidGrantError", "Missing parameter: 'code_verifier'")
        ELSE IF rec.codeChallengeMethod \notin {"plain", "S256"} THEN
            Err("ServerError", "Server error: 'getAuthorizationCode()' did not return a valid 'codeChallengeMethod' property")
        ELSE IF rec.codeChallenge # codeVerifierHash(rec.codeChallengeMethod, verifier) THEN
            Err("InvalidGrantError", "Invalid grant: code verifier is invalid")
        ELSE Ok
    ELSE IF verifier # <<>> THEN
        Err("InvalidGrantError", "Invalid grant: code verifier is invalid")
    ELSE Ok

\* validateRedirectUri, line 168: the body field, else the query field.
requestRedirectUri(body, query) == IF body # <<>> THEN body ELSE query

\* Mutant of validateRedirectUri: the request's URI is checked for syntax
\* but not compared with the stored one.
validateRedirectUri_uncompared(body, query, rec) ==
    IF rec.redirectUri = <<>> THEN Ok
    ELSE IF ~is_uri(requestRedirectUri(body, query)) THEN
        Err("InvalidRequestError", "Invalid request: 'redirect_uri' is not a valid URI")
    ELSE Ok

\* Mutant of validateRedirectUri: a wrong redirect_uri is reported as an
\* invalid grant.
validateRedirectUri_asGrant(body, query, rec) ==
    IF rec.redirectUri = <<>> THEN Ok
    ELSE IF ~is_uri(requestRedirectUri(body, query)) THEN
        Err("InvalidGrantError", "Invalid request: 'redirect_uri' is not a valid URI")
    ELSE IF requestRedirectUri(body, query) # rec.redirectUri THEN
        Err("InvalidGrantError", "Invalid request: 'redirect_uri' is invalid")
    ELSE Ok

\* validateRedirectUri, lines 163-181.
validateRedirectUri(body, query, rec) ==
    IF rec.redirectUri = <<>> THEN Ok
    ELSE IF ~is_uri(requestRedirectUri(body, query)) THEN
        Err("InvalidRequestError", "Invalid request: 'redirect_uri' is not a valid URI")
    ELSE IF requestRedirectUri(body, query) # rec.redirectUri THEN
        Err("InvalidRequestError", "Invalid request: 'redirect_uri' is invalid")
    ELSE Ok

\* Mutant of checkRevoked: the status the store returns is not looked at.
checkRevoked_ignored(st) == Ok

\* revokeAuthorizationCode, lines 195-199: a falsy status is an invalid grant.
checkRevoked(st) == IF st THEN Ok ELSE InvalidCode

\* Mutant of buildToken: the Token does not carry the authorization code.
buildToken_withoutCode(accessToken, authorizationCode, refreshToken, accessScope) ==
    [accessToken |-> accessToken, authorizationCode |-> <<>>,
     refreshToken |-> refreshToken, scope |-> accessScope]

\* saveToken, lines 220-227: the Token record handed to model.saveToken.
buildToken(accessToken, authorizationCode, refreshToken, accessScope) ==
    [accessToken |-> accessToken, authorizationCode |-> authorizationCode,
     refreshToken |-> refreshToken, scope |-> accessScope]

\* ------------------------------------------------- storage collaborator
\* model.getAuthorizationCode(codeString).
model_getAuthorizationCode(c) ==
    IF present /\ c = store.authorizationCode THEN store ELSE Absent

\* model.revokeAuthorizationCode(code) of a store that keeps the contract:
\* true to the one call that consumes the code.
model_revokeAuthorizationCode(rec) ==
    rec.exists /\ rec.authorizationCode = store.authorizationCode /\ ~consumed

\* --------------------------------------------------------------- actions
\* handle() ends: it returns `res`, a Token or an error.
End(i, res) ==
    /\ pc' = [pc EXCEPT ![i] = "done"]
    /\ result' = [result EXCEPT ![i] = res]

\* handle() goes on to await collaborator call `call`.
Await(i, call) ==
    /\ pc' = [pc EXCEPT ![i] = call]
    /\ calls' = [calls EXCEPT ![i] = Append(@, call)]
    /\ UNCHANGED result

\* What a collaborator that fails throws; handle() passes it on unchanged.
Thrown(call) == Err("Error", call)

\* handle, lines 46-54 and getAuthorizationCode, lines 71-79: the
\* arguments and the code parameter are checked, then the store is asked.
handle(i) ==
    /\ pc[i] = "idle"
    /\ \E hasRequest \in BOOLEAN :
       \E cl \in (IF hasRequest THEN Clients \cup {Null} ELSE {Null}) :
       LET e0 == validateArguments(hasRequest, cl) IN
       \E c \in (IF e0 = Ok THEN CodeParams ELSE {Unread}) :
       LET e1 == IF e0 = Ok THEN validateCodeParameter(c) ELSE e0 IN
        /\ client' = [client EXCEPT ![i] = cl]
        /\ request' = [request EXCEPT ![i].code = c]
        /\ before' = [before EXCEPT ![i] = {j \in Invocations : pc[j] = "done"}]
        /\ IF e1 = Ok
           THEN Await(i, "getAuthorizationCode")
           ELSE End(i, e1) /\ UNCHANGED calls
    /\ UNCHANGED << now, store, present, consumed, code, lookupAt, status, issue,
                    saved >>

\* Mutant of getAuthorizationCode: the code is revoked before the redirect
\* URI is checked, so a failed redirect check leaves the code consumed.
getAuthorizationCode_revokeFirst(i) ==
    /\ pc[i] = "getAuthorizationCode"
    /\ LET rec == model_getAuthorizationCode(request[i].code)
           e1 == validateCode(rec, client[i], now)
       IN
       \E v \in (IF e1 = Ok THEN Verifiers ELSE {Unread}) :
       LET e2 == IF e1 = Ok THEN verifyCodeChallenge(rec, v) ELSE e1 IN
       \E rb \in (IF e2 = Ok /\ rec.redirectUri # <<>> THEN BodyRedirects ELSE {Unread}) :
       \E rq \in (IF rb = <<>> THEN QueryRedirects ELSE {Unread}) :
       LET e3 == IF e2 = Ok THEN validateRedirectUri(rb, rq, rec) ELSE e2 IN
        /\ code' = [code EXCEPT ![i] = rec]
        /\ lookupAt' = [lookupAt EXCEPT ![i] = now]
        /\ request' = [request EXCEPT ![i].code_verifier = v,
                                      ![i].body_redirect_uri = rb,
                                      ![i].query_redirect_uri = rq]
        /\ IF e3 = Ok
           THEN Await(i, "revokeAuthorizationCode") /\ UNCHANGED consumed
           ELSE /\ End(i, e3)
                /\ consumed' = (consumed \/ e2 = Ok)
                /\ UNCHANGED calls
    /\ UNCHANGED << now, store, present, client, status, issue, before, saved >>

\* getAuthorizationCode, lines 79-150, then handle, lines 55-56 and
\* revokeAuthorizationCode, line 194: the store answers the lookup, the
\* record is validated, the redirect URI is checked, revocation is asked.
\* code_verifier and redirect_uri are drawn where the code first reads them.
getAuthorizationCode(i) ==
    /\ pc[i] = "getAuthorizationCode"
    /\ LET rec == model_getAuthorizationCode(request[i].code)
           e1 == validateCode(rec, client[i], now)
       IN
       \E v \in (IF e1 = Ok THEN Verifiers ELSE {Unread}) :
       LET e2 == IF e1 = Ok THEN verifyCodeChallenge(rec, v) ELSE e1 IN
       \E rb \in (IF e2 = Ok /\ rec.redirectUri # <<>> THEN BodyRedirects ELSE {Unread}) :
       \E rq \in (IF rb = <<>> THEN QueryRedirects ELSE {Unread}) :
       LET e3 == IF e2 = Ok THEN validateRedirectUri(rb, rq, rec) ELSE e2 IN
        /\ code' = [code EXCEPT ![i] = rec]
        /\ lookupAt' = [lookupAt EXCEPT ![i] = now]
        /\ request' = [request EXCEPT ![i].code_verifier = v,
                                      ![i].body_redirect_uri = rb,
                                      ![i].query_redirect_uri = rq]
        /\ IF e3 = Ok
           THEN Await(i, "revokeAuthorizationCode")
           ELSE End(i, e3) /\ UNCHANGED calls
    /\ UNCHANGED << now, store, present, consumed, client, status, issue, before, saved >>

\* revokeAuthorizationCode, lines 194-201, then handle, line 58 and
\* saveToken, line 214: the store answers the revocation; a falsy status
\* ends the exchange, a truthy one starts token issuance.  A store may
\* delete a revoked record or keep it marked.
revokeAuthorizationCode(i) ==
    /\ pc[i] = "revokeAuthorizationCode"
    /\ LET st == model_revokeAuthorizationCode(code[i])
           e == checkRevoked(st)
       IN
        /\ status' = [status EXCEPT ![i] = IF st THEN "true" ELSE "false"]
        /\ consumed' = TRUE
        /\ \E keep \in BOOLEAN : present' = (present /\ keep)
        /\ IF e = Ok
           THEN Await(i, "validateScope")
           ELSE End(i, e) /\ UNCHANGED calls
    /\ UNCHANGED << now, store, request, client, code, lookupAt, issue, before,
                    saved >>

\* Mutant of validateScope: when scope resolution throws, it is asked again.
validateScope_retried(i) ==
    /\ pc[i] = "validateScope"
    /\ \/ \E sc \in ResolvedScopes(code[i].scope) :
            /\ issue' = [issue EXCEPT ![i].accessScope = sc]
            /\ Await(i, "generateAccessToken")
       \/ /\ Await(i, "validateScope")
          /\ UNCHANGED issue
    /\ UNCHANGED << now, store, present, consumed, request, client, code, lookupAt,
                    status, before, saved >>

\* saveToken, lines 214-215: scope resolution answers, or throws.
validateScope(i) ==
    /\ pc[i] = "validateScope"
    /\ \/ \E sc \in ResolvedScopes(code[i].scope) :
            /\ issue' = [issue EXCEPT ![i].accessScope = sc]
            /\ Await(i, "generateAccessToken")
       \/ /\ End(i, Thrown("validateScope"))
          /\ UNCHANGED << issue, calls >>
    /\ UNCHANGED << now, store, present, consumed, request, client, code, lookupAt,
                    status, before, saved >>

\* saveToken, lines 215-216: the access token generator answers, or throws.
generateAccessToken(i) ==
    /\ pc[i] = "generateAccessToken"
    /\ \/ /\ issue' = [issue EXCEPT ![i].accessToken = "access"]
          /\ Await(i, "generateRefreshToken")
       \/ /\ End(i, Thrown("generateAccessToken"))
          /\ UNCHANGED << issue, calls >>
    /\ UNCHANGED << now, store, present, consumed, request, client, code, lookupAt,
                    status, before, saved >>

\* saveToken, lines 216-229: the refresh token generator answers, or
\* throws; the Token is assembled and handed to model.saveToken.
generateRefreshToken(i) ==
    /\ pc[i] = "generateRefreshToken"
    /\ \/ /\ issue' = [issue EXCEPT ![i].refreshToken = "refresh"]
          /\ Await(i, "saveToken")
       \/ /\ End(i, Thrown("generateRefreshToken"))
          /\ UNCHANGED << issue, calls >>
    /\ UNCHANGED << now, store, present, consumed, request, client, code, lookupAt,
                    status, before, saved >>

\* Mutant of saveToken: when model.saveToken throws, the code is given back
\* (the revocation is undone).
saveToken_restoring(i) ==
    /\ pc[i] = "saveToken"
    /\ LET token == buildToken(issue[i].accessToken, code[i].authorizationCode,
                               issue[i].refreshToken, issue[i].accessScope)
       IN
       \/ /\ saved' = saved \cup {[token |-> token, client |-> client[i],
                                    user |-> code[i].user, by |-> i]}
          /\ End(i, [kind |-> "Token", message |-> "", token |-> token])
          /\ UNCHANGED << present, consumed >>
       \/ /\ End(i, Thrown("saveToken"))
          /\ consumed' = FALSE
          /\ present' = TRUE
          /\ UNCHANGED saved
    /\ UNCHANGED << now, store, request, client, code, lookupAt, status, issue,
                    calls, before >>

\* saveToken, line 229, and handle, line 58: model.saveToken persists the
\* Token and handle() returns it, or it throws and nothing is persisted.
saveToken(i) ==
    /\ pc[i] = "saveToken"
    /\ LET token == buildToken(issue[i].accessToken, code[i].authorizationCode,
                               issue[i].refreshToken, issue[i].accessScope)
       IN
       \/ /\ saved' = saved \cup {[token |-> token, client |-> client[i],
                                    user |-> code[i].user, by |-> i]}
          /\ End(i, [kind |-> "Token", message |-> "", token |-> token])
       \/ /\ End(i, Thrown("saveToken"))
          /\ UNCHANGED saved
    /\ UNCHANGED << now, store, present, consumed, request, client, code, lookupAt,
                    status, issue, calls, before >>

\* Time passes.
Tick ==
    /\ now < MaxNow
    /\ now' = now + 1
    /\ UNCHANGED << store, present, consumed, pc, request, client, code, lookupAt,
                    status, issue, result, calls, before, saved >>

Next ==
    \/ Tick
    \/ \E i \in Invocations :
        \/ handle(i)
        \/ getAuthorizationCode(i)
        \/ revokeAuthorizationCode(i)
        \/ validateScope(i)
        \/ generateAccessToken(i)
        \/ generateRefreshToken(i)
        \/ saveToken(i)

Spec == Init /\ [][Next]_vars

\* ---------------------------------------------------- claims: vocabulary
Done(i) == pc[i] = "done"

\* Invocation i has made collaborator call `call`.
Called(i, call) == \E k \in 1..Len(calls[i]) : calls[i][k] = call

\* The store has answered i's lookup.
Fetched(i) == Called(i, "getAuthorizationCode") /\ pc[i] # "getAuthorizationCode"

\* i has started token issuance (scope resolution is its first step).
Issuing(i) == Called(i, "validateScope")

\* j began after i had ended.
After(i, j) == i \in before[j]

\* i and j overlap in time.
Concurrent(i, j) == i # j /\ ~After(i, j) /\ ~After(j, i)

\* j presents the request i presented: the same client and, in every
\* field j has read, the value i read.
Replays(i, j) ==
    /\ i # j
    /\ client[j] = client[i]
    /\ request[j].code = request[i].code
    /\ request[j].code_verifier \in {Unread, request[i].code_verifier}
    /\ request[j].body_redirect_uri \in {Unread, request[i].body_redirect_uri}
    /\ request[j].query_redirect_uri \in {Unread, request[i].query_redirect_uri}

\* The collaborator calls of one complete exchange, in order.
Pipeline == << "getAuthorizationCode", "revokeAuthorizationCode", "validateScope",
               "generateAccessToken", "generateRefreshToken", "saveToken" >>

\* The redirect_uri the request carries, as read so far.
ReadRedirect(i) ==
    IF request[i].body_redirect_uri \notin {Unread, <<>>}
    THEN request[i].body_redirect_uri
    ELSE request[i].query_redirect_uri

\* ------------------------------------------------------------------- C1
\* C1: with a store whose revocation is atomic, of the invocations that
\* present the same code at most one starts token issuance or reaches
\* model.saveToken; every other one never starts issuance, ends with
\* InvalidGrantError once it has asked for revocation, and ends with
\* InvalidGrantError whenever it replays the issuer's request.
C1_SingleIssuer ==
    /\ Cardinality({i \in Invocations : Issuing(i)}) <= 1
    /\ Cardinality(saved) <= 1
    /\ \A i, j \in Invocations :
        (i # j /\ Issuing(i) /\ request[j].code = request[i].code) =>
            /\ ~Issuing(j) /\ ~Called(j, "saveToken")
            /\ (Done(j) /\ Called(j, "revokeAuthorizationCode"))
                    => result[j].kind = "InvalidGrantError"
            /\ (Done(j) /\ Replays(i, j)) => result[j].kind = "InvalidGrantError"

\* Two overlapping invocations both asked for revocation of the code: one
\* was given the Token, the other ended with InvalidGrantError.
C1_Witness ==
    \E i, j \in Invocations :
        /\ Concurrent(i, j)
        /\ result[i].kind = "Token"
        /\ Called(j, "revokeAuthorizationCode") /\ status[j] = "false"
        /\ result[j].kind = "InvalidGrantError"

\* ------------------------------------------------------------------- C2
\* C2: of two sequential exchanges of the same code by the same client
\* with the same request, the first of which passes validation, the first
\* has its revocation accepted and ends with a Token unless an issuance
\* collaborator throws, the second ends with InvalidGrantError, and
\* model.saveToken is called at most once over both (exactly once when the
\* first returned a Token).
C2_UsableOnce ==
    \A i, j \in Invocations :
        (After(i, j) /\ Replays(i, j) /\ Called(i, "revokeAuthorizationCode")) =>
            /\ status[i] = "true"
            /\ result[i].kind \in {"Token", "Error"}
            /\ ~Called(j, "saveToken")
            /\ Done(j) => result[j].kind = "InvalidGrantError"
            /\ result[i].kind = "Token" =>
                    /\ Cardinality(saved) = 1
                    /\ \A t \in saved : t.by = i

\* The replay of an exchange that returned a Token has ended, refused at
\* revocation.
C2_Witness ==
    \E i, j \in Invocations :
        /\ After(i, j) /\ Replays(i, j)
        /\ result[i].kind = "Token"
        /\ Done(j) /\ status[j] = "false"
        /\ result[j].kind = "InvalidGrantError"

\* ------------------------------------------------------------------- C3
\* C3: one invocation makes its collaborator calls in the order lookup,
\* revocation, scope resolution, token generation, model.saveToken;
\* revocation is asked only for a record that exists, is bound to the
\* presented client and whose redirect URI the request repeats; token
\* issuance starts only once the revocation has answered true, and a falsy
\* answer ends the invocation with InvalidGrantError and no issuance.
C3_StepOrder ==
    \A i \in Invocations :
        /\ calls[i] = SubSeq(Pipeline, 1, Len(calls[i]))
        /\ Called(i, "revokeAuthorizationCode") =>
                /\ code[i].exists
                /\ code[i].client = client[i]
                /\ code[i].redirectUri # <<>> => ReadRedirect(i) = code[i].redirectUri
        /\ status[i] # "none" => Called(i, "revokeAuthorizationCode")
        /\ Issuing(i) => status[i] = "true"
        /\ status[i] = "false" =>
                /\ Done(i)
                /\ result[i].kind = "InvalidGrantError"
                /\ ~Issuing(i)

\* An invocation whose record carries a redirect URI has gone through all
\* four steps, and another has been refused at revocation.
C3_Witness ==
    \E i, j \in Invocations :
        /\ code[i].exists /\ code[i].redirectUri # <<>>
        /\ calls[i] = Pipeline /\ result[i].kind = "Token"
        /\ status[j] = "false" /\ Done(j)

\* ------------------------------------------------------------------- C4
\* C4: when revocation succeeded and a later step of issuance throws,
\* handle() ends with that step's error, nothing is persisted for it, no
\* call beyond the pipeline is made, and the code stays consumed: no later
\* invocation with that code starts issuance, a later replay of the request
\* ends with InvalidGrantError, and any later attempt with the code ends
\* with InvalidGrantError unless its own redirect_uri is wrong.
C4_FailForward ==
    \A i \in Invocations :
        (status[i] = "true" /\ Done(i) /\ result[i].kind # "Token") =>
            /\ result[i] = Thrown(calls[i][Len(calls[i])])
            /\ calls[i] = SubSeq(Pipeline, 1, Len(calls[i]))
            /\ consumed
            /\ \A t \in saved : t.by # i
            /\ \A j \in Invocations :
                (After(i, j) /\ request[j].code = request[i].code) =>
                    /\ ~Issuing(j)
                    /\ (Done(j) /\ Replays(i, j)) => result[j].kind = "InvalidGrantError"
                    /\ Done(j) =>
                        \/ result[j].kind = "InvalidGrantError"
                        \/ /\ result[j].kind = "InvalidRequestError"
                           /\ ReadRedirect(j) # code[j].redirectUri

\* Issuance failed after a successful revocation, and a later replay of
\* the request was refused.
C4_Witness ==
    \E i, j \in Invocations :
        /\ status[i] = "true" /\ result[i].kind = "Error"
        /\ After(i, j) /\ Replays(i, j)
        /\ Done(j) /\ result[j].kind = "InvalidGrantError"

\* ------------------------------------------- claims: causes of refusal
\* The fetched record carries a client and a user.
WellFormed(i) == code[i].exists /\ code[i].client # Null /\ code[i].user # Null

\* The store did not know the code i presented.
UnknownCode(i) == Fetched(i) /\ ~code[i].exists

\* i presented a well-formed record bound to another client.
WrongClient(i) == Fetched(i) /\ WellFormed(i) /\ code[i].client # client[i]

\* The record i fetched is bound to the presented client and carries an
\* expiry timestamp.
Bound(i) ==
    Fetched(i) /\ WellFormed(i) /\ code[i].client = client[i] /\ code[i].expiresAt.isDate

\* The record i fetched had expired strictly before the lookup.
Expired(i) == Bound(i) /\ code[i].expiresAt.time < lookupAt[i]

\* The record i fetched passes every check before PKCE.
OtherwiseValid(i) ==
    /\ Bound(i)
    /\ code[i].expiresAt.time >= lookupAt[i]
    /\ code[i].redirectUri \in {<<>>, UriA}

\* The error of a code that is unknown, bound to another client or
\* already revoked.
CodeIsInvalid == [kind |-> "InvalidGrantError",
                  message |-> "Invalid grant: authorization code is invalid"]

CodeHasExpired == [kind |-> "InvalidGrantError",
                   message |-> "Invalid grant: authorization code has expired"]

\* ------------------------------------------------------------------- C5
\* C5: a well-formed record bound to client A and presented by client B
\* ends handle() with the very error (kind and message) that presenting an
\* unknown code ends it with, whatever the record's expiry, redirect URI
\* and PKCE fields are, and neither run asks for revocation.
C5_WrongClientAsUnknown ==
    \A i, j \in Invocations :
        (WrongClient(i) /\ UnknownCode(j)) =>
            /\ Done(i) /\ Done(j)
            /\ result[i] = result[j]
            /\ result[i].kind = "InvalidGrantError"
            /\ ~Called(i, "revokeAuthorizationCode")
            /\ ~Called(j, "revokeAuthorizationCode")

\* Client B presented the code of client A, whose record has expired and
\* holds a bad redirect URI and a challenge, and another run presented a
\* code the store never held.
C5_Witness ==
    \E i, j \in Invocations :
        /\ WrongClient(i) /\ Done(i)
        /\ code[i].expiresAt.isDate /\ code[i].expiresAt.time < lookupAt[i]
        /\ code[i].redirectUri = BadUri /\ code[i].codeChallenge # <<>>
        /\ UnknownCode(j) /\ request[j].code = CodeB /\ Done(j)

\* ------------------------------------------------------------------- C6
\* The proof the request's verifier must give for the stored method: the
\* verifier itself for plain, the unpadded base64url encoding of its
\* SHA-256 digest for S256.
S256Proof == [v \in Verifiers |-> base64URLEncode(sha256(v))]

Proof(method, verifier) ==
    IF method = "plain" THEN verifier ELSE S256Proof[verifier]

\* Distinct verifiers of the model have distinct S256 proofs.
ProofsDistinct == \A v, w \in Verifiers : v # w => S256Proof[v] # S256Proof[w]

\* The record i fetched passes every check before PKCE, and PKCE refuses
\* the request: no verifier for a challenge, a verifier whose proof is not
\* the challenge, or a verifier where no challenge is stored.
PkceRefused(i) ==
    /\ OtherwiseValid(i)
    /\ \/ code[i].codeChallenge # <<>> /\ request[i].code_verifier = <<>>
       \/ /\ code[i].codeChallenge # <<>>
          /\ code[i].codeChallengeMethod \in {"plain", "S256"}
          /\ code[i].codeChallenge # Proof(code[i].codeChallengeMethod,
                                           request[i].code_verifier)
       \/ code[i].codeChallenge = <<>> /\ request[i].code_verifier # <<>>

\* The store refused i's revocation.
RevokeRefused(i) == status[i] = "false"

C7_ExpiredAtOrBefore ==
    \A i \in Invocations :
        (Bound(i) /\ code[i].expiresAt.time <= lookupAt[i]) =>
            /\ Done(i)
            /\ result[i].kind = "InvalidGrantError"
            /\ ~Called(i, "revokeAuthorizationCode")

\* C7 (amended): a bound record whose expiry is strictly before the
\* instant of the lookup ends handle() with the expired InvalidGrantError,
\* and no revocation or token issuance follows; a record whose expiry is
\* that very instant is not refused as expired.
C7_ExpiredStrictlyBefore ==
    \A i \in Invocations :
        /\ (Bound(i) /\ code[i].expiresAt.time < lookupAt[i]) =>
                /\ Done(i)
                /\ result[i] = CodeHasExpired
                /\ calls[i] = << "getAuthorizationCode" >>
                /\ status[i] = "none"
                /\ \A t \in saved : t.by # i
        /\ (Bound(i) /\ code[i].expiresAt.time = lookupAt[i]) =>
                result[i] # CodeHasExpired

\* One run was refused a code that had expired before its lookup; the
\* other looked the code up at the instant of expiry and was given a Token.
C7_Witness ==
    \E i, j \in Invocations :
        /\ Bound(i) /\ code[i].expiresAt.time < lookupAt[i] /\ Done(i)
        /\ Bound(j) /\ code[j].expiresAt.time = lookupAt[j]
        /\ result[j].kind = "Token"

\* ------------------------------------------------------------------- C8
\* C8 as stated: any record the store returns with an expiry strictly
\* before the lookup ends handle() with InvalidGrantError, whatever else
\* the record and the request hold.
C8_ExpiredAlways ==
    \A i \in Invocations :
        (Fetched(i) /\ code[i].exists /\ code[i].expiresAt.isDate
            /\ code[i].expiresAt.time < lookupAt[i]) =>
            Done(i) /\ result[i].kind = "InvalidGrantError"

\* C8 (amended): a record that carries a client and a user and whose expiry
\* is strictly before the lookup ends handle() with InvalidGrantError,
\* whatever the client match, stored redirect URI and PKCE fields are; a
\* record without client or user ends it with ServerError instead.
C8_ExpiredWellFormed ==
    \A i \in Invocations :
        (Fetched(i) /\ code[i].exists /\ code[i].expiresAt.isDate
            /\ code[i].expiresAt.time < lookupAt[i]) =>
            /\ Done(i)
            /\ ~Called(i, "revokeAuthorizationCode")
            /\ WellFormed(i) => result[i].kind = "InvalidGrantError"
            /\ ~WellFormed(i) => result[i].kind = "ServerError"

\* An expired record of another client, with a bad redirect URI and a
\* challenge of unknown method, was refused.
C8_Witness ==
    \E i \in Invocations :
        /\ WrongClient(i) /\ code[i].expiresAt.isDate
        /\ code[i].expiresAt.time < lookupAt[i]
        /\ code[i].redirectUri = BadUri /\ code[i].codeChallengeMethod = "md5"
        /\ result[i].kind = "InvalidGrantError"

\* ------------------------------------------------------------------- C9
\* C9: when the fetched record passes every check before PKCE and carries
\* no challenge, a request that supplies a code_verifier ends handle() with
\* InvalidGrantError; that invocation asks for no revocation and persists
\* no token.
C9_VerifierWithoutChallenge ==
    \A i \in Invocations :
        (OtherwiseValid(i) /\ code[i].codeChallenge = <<>>
            /\ request[i].code_verifier # <<>>) =>
            /\ Done(i)
            /\ result[i].kind = "InvalidGrantError"
            /\ calls[i] = << "getAuthorizationCode" >>
            /\ status[i] = "none"
            /\ \A t \in saved : t.by # i

\* A verifier was sent for a valid code without a challenge and refused;
\* the code is still unrevoked.
C9_Witness ==
    \E i \in Invocations :
        /\ OtherwiseValid(i) /\ code[i].codeChallenge = <<>>
        /\ request[i].code_verifier = V1
        /\ Done(i) /\ result[i].kind = "InvalidGrantError"
        /\ ~consumed

\* ------------------------------------------------------------------ C10
\* The request's redirect_uri repeats the stored one, or none is stored.
RedirectRepeated(i) ==
    code[i].redirectUri # <<>> => ReadRedirect(i) = code[i].redirectUri

\* C10: when the fetched record passes every check before PKCE and carries
\* a challenge with method plain or S256, the exchange goes on to
\* revocation exactly when the proof of the request's verifier equals the
\* stored challenge (given that the redirect URI is repeated), and ends
\* with InvalidGrantError before revocation otherwise; a Token is returned
\* only for an equal proof, and is returned for one whenever the
\* revocation is accepted and no issuance collaborator throws.  The digest
\* is injective on the verifiers of the model, so a verifier other than the
\* accepted one is refused.
C10_PkceIff ==
    /\ ProofsDistinct
    /\ \A i \in Invocations :
        (OtherwiseValid(i) /\ code[i].codeChallenge # <<>>
            /\ code[i].codeChallengeMethod \in {"plain", "S256"}) =>
            LET equal == code[i].codeChallenge
                            = Proof(code[i].codeChallengeMethod, request[i].code_verifier)
            IN
            /\ ~equal =>
                    /\ Done(i)
                    /\ result[i].kind = "InvalidGrantError"
                    /\ calls[i] = << "getAuthorizationCode" >>
            /\ (equal /\ RedirectRepeated(i)) => Called(i, "revokeAuthorizationCode")
            /\ (equal /\ ~RedirectRepeated(i)) => result[i].kind = "InvalidRequestError"
            /\ result[i].kind = "Token" => equal
            /\ (equal /\ Done(i) /\ status[i] = "true" /\ result[i].kind # "Error")
                    => result[i].kind = "Token"

\* An S256 exchange with the right verifier returned a Token, and one with
\* another verifier was refused.
C10_Witness ==
    \E i, j \in Invocations :
        /\ code[i].exists /\ code[i].codeChallengeMethod = "S256"
        /\ request[i].code_verifier = V1 /\ result[i].kind = "Token"
        /\ OtherwiseValid(j) /\ request[j].code_verifier = V2
        /\ result[j].kind = "InvalidGrantError"
        /\ calls[j] = << "getAuthorizationCode" >>

\* ------------------------------------------------------------------ C11
\* The record i fetched passes every check of getAuthorizationCode: the
\* checks before PKCE, and PKCE (no challenge and no verifier, or a
\* challenge of a known method that the verifier's proof equals).
Validated(i) ==
    /\ OtherwiseValid(i)
    /\ \/ code[i].codeChallenge = <<>> /\ request[i].code_verifier = <<>>
       \/ /\ code[i].codeChallenge # <<>>
          /\ code[i].codeChallengeMethod \in {"plain", "S256"}
          /\ request[i].code_verifier # <<>>
          /\ code[i].codeChallenge = Proof(code[i].codeChallengeMethod,
                                           request[i].code_verifier)

\* C11: when the validated record carries a redirect URI, a request whose
\* redirect_uri is omitted or differs from the stored value ends handle()
\* with InvalidRequestError, not InvalidGrantError, and asks for no
\* revocation; a request whose redirect_uri equals the stored value goes
\* on to revocation, and to a Token when the revocation is accepted and no
\* issuance collaborator throws.
C11_RedirectUri ==
    \A i \in Invocations :
        (Validated(i) /\ code[i].redirectUri # <<>>) =>
            /\ ReadRedirect(i) # code[i].redirectUri =>
                    /\ Done(i)
                    /\ result[i].kind = "InvalidRequestError"
                    /\ calls[i] = << "getAuthorizationCode" >>
                    /\ status[i] = "none"
            /\ ReadRedirect(i) = code[i].redirectUri =>
                    /\ Called(i, "revokeAuthorizationCode")
                    /\ (Done(i) /\ status[i] = "true" /\ result[i].kind # "Error")
                            => result[i].kind = "Token"

\* One request left redirect_uri out and was refused with the code still
\* unrevoked; a later one repeated the stored URI in the query and was
\* given a Token.
C11_Witness ==
    \E i, j \in Invocations :
        /\ Validated(i) /\ code[i].redirectUri = UriA
        /\ request[i].body_redirect_uri = <<>> /\ request[i].query_redirect_uri = <<>>
        /\ result[i].kind = "InvalidRequestError"
        /\ After(i, j) /\ Validated(j)
        /\ request[j].body_redirect_uri = <<>> /\ request[j].query_redirect_uri = UriA
        /\ result[j].kind = "Token"

\* ------------------------------------------------------------------ C12
\* C12: a request whose code parameter is missing or holds a character
\* outside the visible-ASCII class ends handle() with InvalidRequestError
\* without any collaborator call: no lookup, no revocation, no
\* model.saveToken, and the store is left as it was.
C12_MalformedCodeBeforeLookup ==
    \A i \in Invocations :
        (request[i].code = <<>>
            \/ (request[i].code # Unread
                    /\ \E k \in 1..Len(request[i].code) :
                            request[i].code[k] < 33 \/ request[i].code[k] > 126)) =>
            /\ Done(i)
            /\ result[i].kind = "InvalidRequestError"
            /\ calls[i] = <<>>
            /\ ~Fetched(i) /\ status[i] = "none"
            /\ \A t \in saved : t.by # i

\* A code parameter holding a control character was refused, and so was a
\* missing one; the store has not been asked anything.
C12_Witness ==
    \E i, j \in Invocations :
        /\ request[i].code = << 10 >> /\ result[i].kind = "InvalidRequestError"
        /\ request[j].code = <<>> /\ result[j].kind = "InvalidRequestError"
        /\ calls[i] = <<>> /\ calls[j] = <<>>
        /\ present /\ ~consumed

\* ------------------------------------------------------------------ C13
\* The first check of the validation sequence that invocation i violates:
\* 1 code parameter, 2 record exists, 3 record carries client and user,
\* 4 client binding, 5 expiry is a timestamp and not past, 6 stored
\* redirect URI is a URI, 7 PKCE; 0 when none is violated.  Stated from the
\* record, the request and the clock of the lookup.
FirstViolation(i) ==
    IF request[i].code = <<>> \/ \E k \in 1..Len(request[i].code) :
            request[i].code[k] < 33 \/ request[i].code[k] > 126 THEN 1
    ELSE IF ~code[i].exists THEN 2
    ELSE IF code[i].client = Null \/ code[i].user = Null THEN 3
    ELSE IF code[i].client # client[i] THEN 4
    ELSE IF ~code[i].expiresAt.isDate \/ code[i].expiresAt.time < lookupAt[i] THEN 5
    ELSE IF code[i].redirectUri = BadUri THEN 6
    ELSE IF ~Validated(i) THEN 7
    ELSE 0

\* The check an error message of getAuthorizationCode reports.
ReportedCheck(message) ==
    IF message \in {"Missing parameter: 'code'", "Invalid parameter: 'code'"} THEN 1
    ELSE IF message \in
        {"Server error: 'getAuthorizationCode()' did not return a 'client' object",
         "Server error: 'getAuthorizationCode()' did not return a 'user' object"} THEN 3
    ELSE IF message \in {"Server error: 'expiresAt' must be a Date instance",
                         "Invalid grant: authorization code has expired"} THEN 5
    ELSE IF message = "Invalid grant: 'redirect_uri' is not a valid URI" THEN 6
    ELSE IF message \in
        {"Missing parameter: 'code_verifier'",
         "Invalid grant: code verifier is invalid",
         "Server error: 'getAuthorizationCode()' did not return a valid 'codeChallengeMethod' property"}
        THEN 7
    ELSE 0

\* The kind of error the violated check is reported with.
KindOfViolation(i, n) ==
    IF n = 1 THEN "InvalidRequestError"
    ELSE IF n = 3 THEN "ServerError"
    ELSE IF n = 5 /\ ~code[i].expiresAt.isDate THEN "ServerError"
    ELSE IF n = 7 /\ code[i].codeChallenge # <<>> /\ request[i].code_verifier # <<>>
              /\ code[i].codeChallengeMethod \notin {"plain", "S256"} THEN "ServerError"
    ELSE "InvalidGrantError"

\* C13: once an invocation has read its code parameter and, for a
\* well-formed one, the lookup has answered, it ends with the error of the
\* first check it violates in the order 1..7, whatever later checks it
\* violates too: InvalidRequestError for 1, InvalidGrantError for 2, 4, an
\* expired code, 6 and a PKCE mismatch, ServerError for 3 and a non-date
\* expiry; with no violation it goes on to the redirect URI check.
C13_FirstViolationWins ==
    \A i \in Invocations :
        (request[i].code # Unread /\ (Fetched(i) \/ Done(i))) =>
            LET n == FirstViolation(i) IN
            IF n = 0
            THEN Called(i, "revokeAuthorizationCode")
                    \/ (Done(i) /\ result[i].kind = "InvalidRequestError"
                            /\ ReportedCheck(result[i].message) = 0)
            ELSE /\ Done(i)
                 /\ result[i].kind = KindOfViolation(i, n)
                 /\ IF n \in {2, 4}
                    THEN result[i] = CodeIsInvalid
                    ELSE ReportedCheck(result[i].message) = n
                 /\ ~Called(i, "revokeAuthorizationCode")

\* A record of another client, without a timestamp, with a bad redirect
\* URI and a challenge of unknown method was refused for the client
\* binding.
C13_Witness ==
    \E i \in Invocations :
        /\ Done(i) /\ code[i].exists
        /\ ~code[i].expiresAt.isDate /\ code[i].redirectUri = BadUri
        /\ code[i].codeChallengeMethod = "md5"
        /\ FirstViolation(i) = 4 /\ result[i] = CodeIsInvalid

\* ------------------------------------------------------------------ C14
\* The record i fetched passes every check before PKCE and carries a
\* challenge whose method is neither plain nor S256 (or is missing).
UnknownMethod(i) ==
    /\ OtherwiseValid(i)
    /\ code[i].codeChallenge # <<>>
    /\ code[i].codeChallengeMethod \notin {"plain", "S256"}

\* C14 as stated: a challenge of unrecognised method ends handle() with
\* ServerError whatever code_verifier the request carries, none included.
C14_UnknownMethodAlwaysServerError ==
    \A i \in Invocations :
        UnknownMethod(i) => Done(i) /\ result[i].kind = "ServerError"

\* C14 (amended): a challenge of unrecognised method ends handle() with
\* ServerError, before revocation, whenever the request carries a
\* code_verifier; when the request carries none, the missing verifier is
\* found first and handle() ends with InvalidGrantError.
C14_UnknownMethod ==
    \A i \in Invocations :
        UnknownMethod(i) =>
            /\ Done(i)
            /\ calls[i] = << "getAuthorizationCode" >>
            /\ request[i].code_verifier # <<>> => result[i].kind = "ServerError"
            /\ request[i].code_verifier = <<>> => result[i].kind = "InvalidGrantError"

\* A record with a challenge of unrecognised method met a request with a
\* verifier, refused as a server error, and a request without one, refused
\* as an invalid grant.
C14_Witness ==
    \E i, j \in Invocations :
        /\ UnknownMethod(i) /\ request[i].code_verifier = V1
        /\ result[i].kind = "ServerError"
        /\ UnknownMethod(j) /\ request[j].code_verifier = <<>>
        /\ result[j].kind = "InvalidGrantError"

\* ------------------------------------------------------------------ C15
\* C15: when the fetched record passes every check before PKCE and
\* carries a challenge, a request without code_verifier ends handle() with
\* the InvalidGrantError of the missing verifier, not with
\* InvalidRequestError, whatever the stored method is (plain, S256,
\* unrecognised or missing): the check comes before the method dispatch.
C15_MissingVerifier ==
    \A i \in Invocations :
        (OtherwiseValid(i) /\ code[i].codeChallenge # <<>>
            /\ request[i].code_verifier = <<>>) =>
            /\ Done(i)
            /\ result[i] = [kind |-> "InvalidGrantError",
                            message |-> "Missing parameter: 'code_verifier'"]
            /\ calls[i] = << "getAuthorizationCode" >>

\* A request without verifier met an S256 challenge and was refused as an
\* invalid grant for the missing verifier.
C15_Witness ==
    \E i \in Invocations :
        /\ OtherwiseValid(i) /\ code[i].codeChallengeMethod = "S256"
        /\ request[i].code_verifier = <<>>
        /\ result[i].message = "Missing parameter: 'code_verifier'"
        /\ result[i].kind = "InvalidGrantError"

\* ------------------------------------------------------------------ C16
\* C16: every Token handed to model.saveToken carries the code string of
\* the record its invocation fetched and had revoked, and the scope that
\* scope resolution answered (which may differ from the scope of the
\* record); it is persisted with the presented client and the user of the
\* record, and it is the Token handle() returns.
C16_TokenContents ==
    \A t \in saved :
        /\ status[t.by] = "true"
        /\ t.token.authorizationCode = code[t.by].authorizationCode
        /\ t.token.authorizationCode = request[t.by].code
        /\ t.token.scope = issue[t.by].accessScope
        /\ t.token.scope \in ResolvedScopes(code[t.by].scope)
        /\ t.client = client[t.by]
        /\ t.user = code[t.by].user /\ t.user # Null
        /\ result[t.by].kind = "Token" /\ result[t.by].token = t.token
        /\ consumed

\* A Token was persisted whose scope, as resolved, is narrower than the
\* scope of the revoked record.
C16_Witness ==
    \E t \in saved :
        /\ t.token.authorizationCode = CodeA
        /\ t.token.scope = "read" /\ code[t.by].scope = "read write"
        /\ t.client = "A" /\ t.user = "u"
        /\ consumed

\* ------------------------------------------------------------------ C17
\* How often invocation i has made collaborator call c.
TimesCalled(i, c) == Cardinality({k \in 1..Len(calls[i]) : calls[i][k] = c})

\* Invocation i has ended with an error.
Failed(i) == Done(i) /\ result[i].kind # "Token"

\* C17: in every state each invocation has made each collaborator call at
\* most once, in the order lookup, revocation, scope resolution, token
\* generation, model.saveToken, and awaits the call it made last; an
\* invocation that ended with an error thrown by a collaborator made that
\* call last; and in every step an invocation that has ended makes no
\* further call and keeps its result.
C17_NoRetry ==
    /\ [](\A i \in Invocations :
            /\ \A c \in {Pipeline[k] : k \in 1..Len(Pipeline)} : TimesCalled(i, c) <= 1
            /\ \A k \in 1..Len(calls[i]) : calls[i][k] = Pipeline[k]
            /\ pc[i] \notin {"idle", "done"} => pc[i] = calls[i][Len(calls[i])]
            /\ (Failed(i) /\ result[i].kind = "Error")
                    => result[i].message = calls[i][Len(calls[i])]
            /\ (Failed(i) /\ status[i] = "false")
                    => calls[i] = << "getAuthorizationCode", "revokeAuthorizationCode" >>)
    /\ [][\A i \in Invocations :
            Done(i) => /\ calls'[i] = calls[i]
                       /\ pc'[i] = "done"
                       /\ result'[i] = result[i]]_vars

\* One invocation ended when model.saveToken threw, having made each call
\* once; another ended refused at revocation.
C17_Witness ==
    \E i, j \in Invocations :
        /\ Failed(i) /\ calls[i] = Pipeline /\ result[i].message = "saveToken"
        /\ Failed(j) /\ status[j] = "false"
        /\ calls[j] = << "getAuthorizationCode", "revokeAuthorizationCode" >>

\* ------------------------------------------- a store without serialization
\* revokeAuthorizationCode, lines 194-201, against a store whose
\* revocation is not atomic: it may answer true to a call although the
\* code has been revoked already.  The core treats the answer as before.
revokeAuthorizationCode_unserialized(i) ==
    /\ pc[i] = "revokeAuthorizationCode"
    /\ \E st \in BOOLEAN :
       LET e == checkRevoked(st) IN
        /\ status' = [status EXCEPT ![i] = IF st THEN "true" ELSE "false"]
        /\ consumed' = TRUE
        /\ \E keep \in BOOLEAN : present' = (present /\ keep)
        /\ IF e = Ok
           THEN Await(i, "validateScope")
           ELSE End(i, e) /\ UNCHANGED calls
    /\ UNCHANGED << now, store, request, client, code, lookupAt, issue, before,
                    saved >>

NextUnserialized ==
    \/ Tick
    \/ \E i \in Invocations :
        \/ handle(i)
        \/ getAuthorizationCode(i)
        \/ revokeAuthorizationCode_unserialized(i)
        \/ validateScope(i)
        \/ generateAccessToken(i)
        \/ generateRefreshToken(i)
        \/ saveToken(i)

SpecUnserialized == Init /\ [][NextUnserialized]_vars

\* ------------------------------------------------------------------ C18
\* The invocations the store answered true to.
Granted == {i \in Invocations : status[i] = "true"}

\* C18: whatever the store answers to revocations, the tokens persisted
\* for the code, and the invocations that have started issuance, are never
\* more than the true answers the store gave: every token belongs to an
\* invocation the store answered true to, so with at most one true answer
\* there is at most one token.
C18_TokensWithinRevocations ==
    /\ Cardinality(saved) <= Cardinality(Granted)
    /\ {i \in Invocations : Issuing(i)} \subseteq Granted
    /\ \A t \in saved : t.by \in Granted /\ t.token.authorizationCode = CodeA
    /\ Cardinality(Granted) <= 1 => Cardinality(saved) <= 1

\* Two overlapping invocations fetched the code, the store answered true
\* to both revocations, and two tokens were persisted for the one code.
C18_Witness ==
    \E i, j \in Invocations :
        /\ Concurrent(i, j)
        /\ status[i] = "true" /\ status[j] = "true"
        /\ result[i].kind = "Token" /\ result[j].kind = "Token"
        /\ Cardinality(saved) = 2
        /\ \A t \in saved : t.token.authorizationCode = CodeA


\* ------------------------------------------------------------------ C19
\* Invocation i ended in code validation or in the redirect-URI check: its
\* code parameter was read, and a check of getAuthorizationCode is
\* violated or the stored redirect URI is not repeated.
FailedBeforeRevocation(i) ==
    /\ Done(i)
    /\ request[i].code # Unread
    /\ (FirstViolation(i) # 0 \/ ~RedirectRepeated(i))

\* C19: an invocation that fails in code validation or in the redirect-URI
\* check asks the store for no revocation and persists no token, and the
\* code stays unconsumed as long as no invocation has asked for its
\* revocation; so another invocation whose revocation is answered is
\* answered true, and returns a Token unless an issuance collaborator
\* throws.
C19_FailureLeavesCodeUnconsumed ==
    /\ \A i \in Invocations :
        FailedBeforeRevocation(i) =>
            /\ ~Called(i, "revokeAuthorizationCode")
            /\ ~Called(i, "saveToken")
            /\ status[i] = "none"
            /\ result[i].kind \in {"InvalidRequestError", "InvalidGrantError",
                                   "ServerError"}
            /\ \A t \in saved : t.by # i
            /\ \A j \in Invocations \ {i} :
                /\ status[j] # "none" => status[j] = "true"
                /\ (Done(j) /\ status[j] = "true" /\ result[j].kind # "Error")
                        => result[j].kind = "Token"
    /\ (\A i \in Invocations : ~Called(i, "revokeAuthorizationCode"))
            => (present /\ ~consumed)

\* An exchange of the validated code failed the redirect-URI check, and a
\* later exchange of the same code was given a Token.
C19_Witness ==
    \E i, j \in Invocations :
        /\ FailedBeforeRevocation(i)
        /\ Validated(i) /\ ~RedirectRepeated(i)
        /\ After(i, j)
        /\ code[j] = code[i]
        /\ status[j] = "true" /\ result[j].kind = "Token"


\* ------------------------------------------------------------------ C20
\* C20: every persisted token belongs to an invocation whose fetched
\* record was bound to the presented client, was unexpired at the lookup,
\* passed PKCE (or had no challenge while the request had no verifier),
\* whose request repeated the stored redirect URI, and whose own
\* revocation the store answered true; the token names the code of that
\* record.
C20_SavedTokensAreEarned ==
    \A t \in saved :
        /\ t.by \in Invocations
        /\ code[t.by].exists
        /\ code[t.by].client = client[t.by]
        /\ code[t.by].expiresAt.isDate
        /\ code[t.by].expiresAt.time >= lookupAt[t.by]
        /\ Validated(t.by)
        /\ FirstViolation(t.by) = 0
        /\ RedirectRepeated(t.by)
        /\ Called(t.by, "revokeAuthorizationCode")
        /\ status[t.by] = "true"
        /\ t.token.authorizationCode = code[t.by].authorizationCode

\* A token was persisted for a record with an S256 challenge and a stored
\* redirect URI, after the record's expiry had passed since validation.
C20_Witness ==
    \E t \in saved :
        /\ code[t.by].codeChallengeMethod = "S256"
        /\ code[t.by].codeChallenge # <<>>
        /\ code[t.by].redirectUri = UriA
        /\ code[t.by].expiresAt.time < now
        /\ result[t.by].kind = "Token"

====
